---------------------------- MODULE Spec2Model ----------------------------
(***************************************************************************)
(* PowerMonitor (backend/profiling/power_monitor.py): the lifecycle of the *)
(* powermetrics subprocess, the sample store and the calls of one caller   *)
(* thread, together with the operating-system side of the subprocess.      *)
(***************************************************************************)
EXTENDS Integers, Sequences, FiniteSets, TLC

(* ------------------------------ bounds --------------------------------- *)
\* Number of subprocesses the environment lets the monitor spawn.
MaxSpawn == 2
\* Number of samples the store may hold.
MaxSamples == 2
\* Largest reading of the wall clock.
MaxClock == 1
\* Number of records the consumer reads from one subprocess.
MaxRecords == 3
\* Largest power value of one entry of a record given to the decoder alone.
MaxPower == 1
\* Largest number of cluster or channel entries of such a record.
MaxEntries == 2
\* transformer layers of the profiled model
MaxLayers == 2
\* register_hooks calls that get past the guard and the layer lookup
MaxRegistrations == 2
\* a forward pass is taken while timings holds fewer records than this
MaxTimings == 1
\* hidden_size of a model configuration
MaxHidden == 4
\* num_attention_heads and num_key_value_heads of a model configuration
MaxHeads == 3

(* ------------------------- values of the fields ------------------------ *)
\* self._process = None
NoProcess == 0
\* self._start_time = None
NoTime == -1

Pids == 1..MaxSpawn

\* What the operating system knows about a subprocess:
\*   unborn  not spawned yet
\*   alive   running
\*   termed  running, SIGTERM delivered (terminate())
\*   dying   SIGKILL delivered (kill()), has not exited yet
\*   exited  exited, not waited for yet
\*   reaped  exited and waited for (wait() returned)
ProcStates == {"unborn", "alive", "termed", "dying", "exited", "reaped"}

\* What subprocess.run does for the probe ['sudo','-n','powermetrics','--help'].
\* "oserror": run raises an OSError that is not FileNotFoundError, such as
\* the PermissionError of a sudo that cannot be executed.
ProbeOutcomes == {"rc0", "rc1", "timeout", "notfound", "oserror"}

\* What subprocess.Popen does: the child is up, the child has already exited
\* when Popen returns (poll() would not be None), or Popen raises.
SpawnOutcomes == {"alive", "exited", "raises"}

\* PowerSample: the four channels and the total (milliwatts), each a field
\* the constructor is given.
PowerSample(c, g, a, d, t) ==
    [cpu_power_mw |-> c, gpu_power_mw |-> g, ane_power_mw |-> a,
     dram_power_mw |-> d, total_power_mw |-> t]

\* The closed set of execution phases, and what callers pass to set_phase.
Phases == {"idle", "pre_inference", "prefill", "decode", "post_inference"}
PhaseInputs == Phases \cup {"invalid_phase"}

\* "No sample": None where a PowerSample is expected.
NoSample == [none |-> TRUE]

\* A value of a record that the record does not have.
Absent == -1

\* One telemetry record (a decoded plist):
\*   wellformed  the containers have the expected structure
\*   processor   the 'processor' container is there
\*   clusters    cpu_power of the entries of processor.clusters
\*   gpu, ane    processor.gpu.gpu_power, processor.ane.power, or Absent
\*   channels    power of the entries of thermal.channels
\*   reported    a grand total the source states itself
RawRecord(wf, proc, cl, g, a, ch, rep) ==
    [wellformed |-> wf, processor |-> proc, clusters |-> cl, gpu |-> g,
     ane |-> a, channels |-> ch, reported |-> rep]

\* The records the telemetry source emits while the monitor runs: two
\* readable ones (the second with the higher CPU and the lower GPU power,
\* both stating a total that is not the sum) and a malformed one.
TelemetryRecords ==
    { RawRecord(TRUE, TRUE, << 1 >>, 2, Absent, << 1 >>, 9),
      RawRecord(TRUE, TRUE, << 1, 1 >>, 1, 1, << >>, 0),
      RawRecord(FALSE, FALSE, << >>, Absent, Absent, << >>, 0) }

\* No record: what the decoder is handed before any record was read.
NoRecord == RawRecord(FALSE, FALSE, << >>, Absent, Absent, << >>, 0)

\* The parts of the records the decoder is applied to on its own: power
\* values and entry lists within the bounds.
Powers == 0..MaxPower
EntrySeqs == UNION { [1..n -> Powers] : n \in 0..MaxEntries }

RECURSIVE SumSeq(_)
SumSeq(q) == IF Len(q) = 0 THEN 0 ELSE Head(q) + SumSeq(Tail(q))

OrZero(v) == IF v = Absent THEN 0 ELSE v

\* A decoder that takes the total the source states.
DecodeSample_trustsReported(r) ==
    PowerSample(SumSeq(r.clusters), OrZero(r.gpu), OrZero(r.ane),
                SumSeq(r.channels), r.reported)

\* A decoder that takes only the first cluster and the first channel.
DecodeSample_firstEntry(r) ==
    PowerSample(IF r.clusters = << >> THEN 0 ELSE Head(r.clusters),
                OrZero(r.gpu), OrZero(r.ane),
                IF r.channels = << >> THEN 0 ELSE Head(r.channels),
                (IF r.clusters = << >> THEN 0 ELSE Head(r.clusters))
                  + OrZero(r.gpu) + OrZero(r.ane)
                  + (IF r.channels = << >> THEN 0 ELSE Head(r.channels)))

\* The sample of a readable record: CPU and DRAM are sums over the entries,
\* GPU and ANE single values, a missing channel is 0, the total is the sum
\* of the four.
DecodeSample(r) ==
    PowerSample(SumSeq(r.clusters), OrZero(r.gpu), OrZero(r.ane),
                SumSeq(r.channels),
                SumSeq(r.clusters) + OrZero(r.gpu) + OrZero(r.ane)
                  + SumSeq(r.channels))

\* A decoder whose failure on an unreadable record escapes as an exception.
Decode_raises(r) ==
    IF r.wellformed /\ r.processor
    THEN [outcome |-> "sample", sample |-> DecodeSample(r)]
    ELSE [outcome |-> "raised", sample |-> NoSample]

\* The decoder (_parse_plist_sample): a sample, or "no sample" for a record
\* without the structure it needs (malformed, or no processor container);
\* never an exception.
Decode(r) ==
    IF r.wellformed /\ r.processor
    THEN [outcome |-> "sample", sample |-> DecodeSample(r)]
    ELSE [outcome |-> "none", sample |-> NoSample]

ZeroPeaks ==
    [peak_power_mw |-> 0, peak_power_cpu_mw |-> 0, peak_power_gpu_mw |-> 0,
     peak_power_ane_mw |-> 0, peak_power_dram_mw |-> 0]

Max(a, b) == IF a >= b THEN a ELSE b

\* Peak aggregator: every channel keeps its own running maximum.
UpdatePeaks(p, s) ==
    [peak_power_mw      |-> Max(p.peak_power_mw, s.total_power_mw),
     peak_power_cpu_mw  |-> Max(p.peak_power_cpu_mw, s.cpu_power_mw),
     peak_power_gpu_mw  |-> Max(p.peak_power_gpu_mw, s.gpu_power_mw),
     peak_power_ane_mw  |-> Max(p.peak_power_ane_mw, s.ane_power_mw),
     peak_power_dram_mw |-> Max(p.peak_power_dram_mw, s.dram_power_mw)]

(* ------------------------------- state --------------------------------- *)
VARIABLES
    _running,      \* self._running
    _process,      \* self._process: NoProcess or the pid of the Popen object
    _samples,      \* self._samples
    _start_time,   \* self._start_time: NoTime or a clock reading
    peaks,         \* the peak aggregator's five maxima
    threads,       \* number of live consumer threads created by the monitor
    procs,         \* operating system: pid -> ProcStates
    clock,         \* time.time()
    pc,            \* where the caller thread is: "idle" or inside stop()
    terminateCalls,\* terminate() calls made by the latest stop() past its guard
    killCalls,     \* kill() calls made by the latest stop() past its guard
    ret,           \* the call that returned or raised in the last step
    scope,         \* the with statement: "none", "body" or "exit" (in __exit__)
    exc,           \* the exception the body of the with statement raised
    returned,      \* what the latest get_samples() / get_current() gave the caller
    emitted,       \* the records read from the current subprocess, in order
    consumerDead,  \* an exception has escaped the sampling loop
    rawIn,         \* a record handed to the decoder alone
    parsed,        \* what the decoder made of rawIn
    phase,         \* the Phase Tracker's current value
    n0,            \* measure_idle_baseline: length of the store at its call
    model,         \* LayerProfiler.model: what the layers path and the component paths find
    component_paths,   \* LayerProfiler.component_paths: is there a gate_proj path
    hooks,         \* the forward hooks installed on the modules of the model
    hook_handles,  \* LayerProfiler.hook_handles
    timings,       \* LayerProfiler.timings
    _hooks_registered, \* LayerProfiler._hooks_registered
    removeCalls,   \* handle -> number of remove() calls made on it
    registrations, \* register_hooks calls that got as far as installing
    pscope,        \* the with statement over the profiler: "none" or "body"
    config,        \* model.config as extract_model_features reads it
    features       \* what extract_model_features returned

vars == << _running, _process, _samples, _start_time, peaks, threads, procs,
           clock, pc, terminateCalls, killCalls, ret, scope, exc, returned,
           emitted, consumerDead, rawIn, parsed, phase, n0, model,
           component_paths, hooks, hook_handles, timings, _hooks_registered,
           removeCalls, registrations, pscope, config, features >>

withvars == << scope, exc >>
decodervars == << rawIn, parsed >>
\* The LayerProfiler and the model it profiles.
profvars == << model, component_paths, hooks, hook_handles, timings,
               _hooks_registered, removeCalls, registrations, pscope >>
\* The input and the result of extract_model_features.
featvars == << config, features >>
\* What the calls of the PowerMonitor leave alone.
others == << profvars, featvars >>
\* What the lifecycle calls and the environment leave alone.
aside == << returned, consumerDead, rawIn, parsed, phase, n0, others >>

monitor == << _running, _process, _samples, _start_time, peaks, threads >>

\* No call finished in the step.
NoCall ==
    [op |-> "none", result |-> "none", probe |-> "none", spawn |-> "none",
     wait |-> "none"]

\* A call of start(): its outcome, what the probe did and what Popen did
\* ("none" when the call did not get that far).
StartRet(result, probe, spawn) ==
    [op |-> "start", result |-> result, probe |-> probe, spawn |-> spawn,
     wait |-> "none"]

\* The with statement is left: result is the exception that reaches the
\* caller ("ok" for none).
ExitRet(result) ==
    [op |-> "exit", result |-> result, probe |-> "none", spawn |-> "none",
     wait |-> "none"]

\* A call of a reader or a change the caller makes to what it was given.
ReadRet(op) ==
    [op |-> op, result |-> "ok", probe |-> "none", spawn |-> "none",
     wait |-> "none"]

\* A call of the Phase Tracker, the probe or the baseline measurement:
\* value is the argument of set_phase, the value get_phase returns or the
\* outcome of the probe's subprocess.
CallRet(op, result, value) ==
    [op |-> op, result |-> result, probe |-> "none", spawn |-> "none",
     wait |-> "none", value |-> value]

\* The caller holds nothing.
NoReturn ==
    [kind |-> "none", items |-> << >>, alias |-> FALSE, mutated |-> FALSE,
     value |-> NoSample]

\* The decoder has not run on rawIn.
NotParsed == [outcome |-> "pending", sample |-> NoSample]

\* A call of stop(): its outcome and how the bounded wait ended.
StopRet(result, wait) ==
    [op |-> "stop", result |-> result, probe |-> "none", spawn |-> "none",
     wait |-> wait]

(* --------------------------- pure functions ---------------------------- *)
\* Line 80: the except clause names TimeoutExpired and FileNotFoundError;
\* any other exception of subprocess.run leaves is_available.
ProbeEscapes(outcome) == outcome = "oserror"

\* A probe for which any exit status means available.
is_available_anyExit(outcome) ==
    CASE outcome = "rc0"      -> TRUE
      [] outcome = "rc1"      -> TRUE
      [] outcome = "timeout"  -> FALSE
      [] outcome = "notfound" -> FALSE

\* PowerMonitor.is_available: True exactly for exit status 0; a timeout or
\* a missing binary is caught and gives False.
is_available(outcome) ==
    CASE outcome = "rc0"      -> TRUE
      [] outcome = "rc1"      -> FALSE
      [] outcome = "timeout"  -> FALSE
      [] outcome = "notfound" -> FALSE

\* An is_running() that looks at the subprocess.
is_running_polls ==
    /\ _running
    /\ _process # NoProcess
    /\ procs[_process] # "exited"

\* PowerMonitor.is_running
is_running == _running

\* PowerMonitor.get_samples: a copy of the list.
get_samples == _samples

\* A get_samples() that hands out the internal list itself.
SnapshotIsCopy_shared == FALSE

\* Line 158: .copy() makes the list the caller gets a new object.
SnapshotIsCopy == TRUE

\* A get_current() that returns the oldest sample.
get_current_first == IF Len(_samples) > 0 THEN _samples[1] ELSE NoSample

\* PowerMonitor.get_current: self._samples[-1] if self._samples else None.
get_current == IF Len(_samples) > 0 THEN _samples[Len(_samples)] ELSE NoSample

\* A sample the caller makes up to put into a list it was given.
ForeignSample == PowerSample(0, 0, 0, 0, 0)

Reverse(q) == [i \in 1..Len(q) |-> q[Len(q) + 1 - i]]

\* The pid the next Popen gets.
NextPid == Cardinality({p \in Pids : procs[p] # "unborn"}) + 1

(* ------------------- LayerProfiler: model and hooks -------------------- *)
\* Lines 134-147: the components of a layer, in the order their hooks are
\* registered.
ComponentNames ==
    << "q_proj", "k_proj", "v_proj", "o_proj", "gate_proj", "up_proj",
       "down_proj", "input_layernorm", "post_attention_layernorm" >>

ComponentSet == {ComponentNames[i] : i \in 1..Len(ComponentNames)}

\* What a component path finds in a layer: a module, no such attribute
\* (lines 172-176: skipped with a warning), or an object that is no module,
\* on which line 233 raises AttributeError.
ComponentKinds == {"module", "absent", "not_module"}

\* A layer in which every component path finds a module.
GoodLayer == [c \in ComponentSet |-> "module"]

\* n layers, all good but component c of layer l, which is of kind k.
LayersWith(n, l, c, k) ==
    [i \in 1..n |-> IF i = l THEN [GoodLayer EXCEPT ![c] = k] ELSE GoodLayer]

\* A model whose layers path leads nowhere: _get_layers returns None.
NoLayers == [layers_found |-> FALSE, layers |-> << >>]

\* A forward hook on a module; its handle is the hook itself.  registration
\* is the register_hooks call that installed it.
Hook(n, l, c, k) ==
    [registration |-> n, layer_idx |-> l, component_name |-> c, kind |-> k]

\* ComponentTiming, without the clock readings and the statistics.
ComponentTiming(c, l) == [component_name |-> c, layer_idx |-> l]

\* Lines 80-84: the fields of a LayerProfiler after __init__ on model m with
\* component paths cp.
ProfilerConstructed(m, cp) ==
    /\ model = m
    /\ component_paths = cp
    /\ hooks = {}
    /\ hook_handles = << >>
    /\ timings = << >>
    /\ _hooks_registered = FALSE
    /\ removeCalls = [h \in {} |-> 0]
    /\ registrations = 0
    /\ pscope = "none"

\* No profiler is in use.
ProfilerUnused == ProfilerConstructed(NoLayers, [gate_proj |-> FALSE])

(* ------------------- extract_model_features: values -------------------- *)
\* Lines 91-95: the attributes extract_model_features reads from the
\* configuration; Absent is num_key_value_heads = None.
Config(h, a, kv) ==
    [hidden_size |-> h, num_attention_heads |-> a, num_key_value_heads |-> kv]

\* Lines 92-95: the defaults of getattr for a configuration without the
\* attributes.
EmptyConfig == Config(0, 0, Absent)

\* extract_model_features has not been called.
NotExtracted ==
    [outcome |-> "pending", attention_mechanism |-> "none",
     attention_params_per_layer |-> 0]

\* Lines 101-108: the label, decided by comparing the head counts.
AttentionMechanism(a, kv) ==
    IF kv = Absent THEN "MHA"
    ELSE IF kv = 1 THEN "MQA"
    ELSE IF kv < a THEN "GQA"
    ELSE "MHA"

\* Line 316: the count takes the full size for K and V.
FullSizeKV(a, kv) == kv = Absent \/ kv = a

\* Line 321: hidden_size // num_attention_heads raises ZeroDivisionError.
CountRaises(a, kv) == ~FullSizeKV(a, kv) /\ a = 0

\* _count_attention_params_per_layer, for arguments it does not raise on.
_count_attention_params_per_layer(h, a, kv) ==
    LET q_params == h * h
        kv_params == IF FullSizeKV(a, kv)
                     THEN 2 * h * h
                     ELSE 2 * h * ((h \div a) * kv)
        o_params == h * h
    IN  q_params + kv_params + o_params

\* extract_model_features, the label and the attention count of its result.
extract_model_features(cfg) ==
    IF CountRaises(cfg.num_attention_heads, cfg.num_key_value_heads)
    THEN [outcome |-> "ZeroDivisionError", attention_mechanism |-> "none",
          attention_params_per_layer |-> 0]
    ELSE [outcome |-> "ok",
          attention_mechanism |->
              AttentionMechanism(cfg.num_attention_heads, cfg.num_key_value_heads),
          attention_params_per_layer |->
              _count_attention_params_per_layer(cfg.hidden_size,
                  cfg.num_attention_heads, cfg.num_key_value_heads)]

\* No model is being analysed.
FeaturesUnused == config = EmptyConfig /\ features = NotExtracted

(* -------------------------------- Init --------------------------------- *)
\* The monitor after __init__, nothing called yet.
Constructed ==
    /\ _running = FALSE
    /\ _process = NoProcess
    /\ _samples = << >>
    /\ _start_time = NoTime
    /\ peaks = ZeroPeaks
    /\ threads = 0
    /\ procs = [p \in Pids |-> "unborn"]
    /\ clock = 0
    /\ pc = "idle"
    /\ terminateCalls = 0
    /\ killCalls = 0
    /\ ret = NoCall
    /\ scope = "none"
    /\ exc = "none"
    /\ returned = NoReturn
    /\ emitted = << >>
    /\ consumerDead = FALSE
    /\ parsed = NotParsed
    /\ phase = "idle"
    /\ n0 = 0

Init ==
    /\ Constructed
    /\ rawIn = NoRecord
    /\ ProfilerUnused
    /\ FeaturesUnused

\* A profiler constructed on a model within the bounds: the layers path
\* leads nowhere or to at most MaxLayers layers, of which at most one
\* component is not a module.
ProfilerInit ==
    /\ Constructed
    /\ rawIn = NoRecord
    /\ FeaturesUnused
    /\ \E found \in BOOLEAN, n \in 0..MaxLayers, l \in 1..MaxLayers,
          c \in ComponentSet, k \in ComponentKinds, gate \in BOOLEAN :
            ProfilerConstructed(
                IF found
                THEN [layers_found |-> TRUE, layers |-> LayersWith(n, l, c, k)]
                ELSE NoLayers,
                [gate_proj |-> gate])

\* A configuration within the bounds, not yet analysed.
FeaturesInit ==
    /\ Constructed
    /\ rawIn = NoRecord
    /\ ProfilerUnused
    /\ features = NotExtracted
    /\ \E h \in 0..MaxHidden, a \in 0..MaxHeads,
          kv \in (0..MaxHeads) \cup {Absent} :
            config = Config(h, a, kv)

\* A constructed monitor and one record for its decoder: every shape of
\* record within the bounds.
DecodeInit ==
    /\ Constructed
    /\ \E wf \in BOOLEAN, proc \in BOOLEAN, cl \in EntrySeqs, ch \in EntrySeqs,
          g \in Powers \cup {Absent}, a \in Powers \cup {Absent}, rep \in Powers :
            rawIn = RawRecord(wf, proc, cl, g, a, ch, rep)
    /\ ProfilerUnused
    /\ FeaturesUnused

(* ------------------------------ start() -------------------------------- *)
\* A start() that refuses once the monitor has ever been started.
AlreadyRunning_onceStarted == _start_time # NoTime

\* A start() without the guard of line 93.
AlreadyRunning_unguarded == FALSE

\* Line 93: the guard of start().
AlreadyRunning == _running

\* A start() that spawns the subprocess before it runs the probe: the
\* PermissionError leaves the new process behind.
RaisePermissionError_afterSpawn(probe) ==
    /\ NextPid \in Pids
    /\ procs' = [procs EXCEPT ![NextPid] = "alive"]
    /\ _process' = NextPid
    /\ ret' = [op |-> "start", result |-> "PermissionError", probe |-> probe,
               spawn |-> "alive", wait |-> "none"]
    /\ UNCHANGED << _running, _samples, _start_time, peaks, threads, emitted >>

\* Lines 96-100: the probe said no; PermissionError, nothing else happens.
RaisePermissionError(probe) ==
    /\ ret' = StartRet("PermissionError", probe, "none")
    /\ UNCHANGED << monitor, procs, emitted >>

\* A start() that keeps the samples of the run before.
StartCommit_keepsSamples(spawn) ==
    /\ procs' = [procs EXCEPT ![NextPid] = spawn]
    /\ _process' = NextPid
    /\ _start_time' = clock
    /\ _running' = TRUE
    /\ emitted' = << >>
    /\ UNCHANGED << _samples, peaks, threads >>

\* A start() that is Running only when the new process is still alive.
StartCommit_looksAtProcess(spawn) ==
    /\ procs' = [procs EXCEPT ![NextPid] = spawn]
    /\ _process' = NextPid
    /\ _start_time' = clock
    /\ _running' = (spawn = "alive")
    /\ _samples' = << >>
    /\ emitted' = << >>
    /\ UNCHANGED << peaks, threads >>

\* Lines 106-121: Popen returned a process object; the fields start() sets.
\* start() does not look at the new process (no poll()), starts no thread
\* and has no peak values to reset.  Nothing has been read from the new
\* process yet.
StartCommit(spawn) ==
    /\ procs' = [procs EXCEPT ![NextPid] = spawn]
    /\ _process' = NextPid
    /\ _start_time' = clock
    /\ _running' = TRUE
    /\ _samples' = << >>
    /\ emitted' = << >>
    /\ UNCHANGED << peaks, threads >>

\* start() as one call: probe is what the availability probe's subprocess
\* does, spawn what Popen does.
start(probe, spawn) ==
    /\ pc = "idle"
    /\ UNCHANGED << clock, pc, terminateCalls, killCalls, aside >>
    /\ IF AlreadyRunning
       THEN /\ ret' = StartRet("RuntimeError_already_running", "none", "none")
            /\ UNCHANGED << monitor, procs, emitted >>
       ELSE IF ProbeEscapes(probe)
       THEN /\ ret' = StartRet("OSError", probe, "none")
            /\ UNCHANGED << monitor, procs, emitted >>
       ELSE IF ~is_available(probe)
       THEN RaisePermissionError(probe)
       ELSE IF spawn = "raises"
       THEN /\ ret' = StartRet("OSError", probe, spawn)
            /\ UNCHANGED << monitor, procs, emitted >>
       ELSE /\ NextPid \in Pids
            /\ StartCommit(spawn)
            /\ ret' = StartRet("ok", probe, spawn)

\* A plain call of start(): outside a with statement or in its body.
Start ==
    /\ scope # "exit"
    /\ exc = "none"
    /\ \E probe \in ProbeOutcomes, spawn \in SpawnOutcomes : start(probe, spawn)
    /\ UNCHANGED withvars

(* ------------------------------- stop() -------------------------------- *)
\* A stop() without the guard of line 132.
NotRunning_unguarded == FALSE

\* Line 132: the guard of stop().
NotRunning == ~_running

\* A stop() that forgets to drop the process handle.
StopFinish_keepsHandle ==
    /\ _running' = FALSE
    /\ UNCHANGED _process

\* Lines 144-145: the end of stop().
StopFinish ==
    /\ _running' = FALSE
    /\ _process' = NoProcess

\* Line 137: terminate() delivers SIGTERM to a process that is still running.
Terminate(p) ==
    [procs EXCEPT ![p] = IF @ = "alive" THEN "termed" ELSE @]

\* Line 141: kill() delivers SIGKILL to a process that is still running.
Kill(p) ==
    [procs EXCEPT ![p] = IF @ \in {"alive", "termed"} THEN "dying" ELSE @]

\* Line 137: Popen.terminate() sends no signal to a process it finds exited,
\* so it can raise only for a process that has not exited.
TerminateRaises(sig) == sig = "raises" /\ procs[_process] # "exited"

\* A stop() that clears its fields in a finally clause.
stop_begin_finally(sig) ==
    /\ pc = "idle"
    /\ UNCHANGED << _samples, _start_time, peaks, threads, clock, emitted, aside >>
    /\ IF NotRunning
       THEN /\ ret' = StopRet("RuntimeError_not_running", "none")
            /\ UNCHANGED << _running, _process, procs, pc, terminateCalls, killCalls >>
       ELSE IF _process = NoProcess
       THEN /\ StopFinish
            /\ terminateCalls' = 0
            /\ killCalls' = 0
            /\ ret' = StopRet("ok", "none")
            /\ UNCHANGED << procs, pc >>
       ELSE IF TerminateRaises(sig)
       THEN /\ terminateCalls' = 1
            /\ killCalls' = 0
            /\ ret' = StopRet("OSError", "none")
            /\ StopFinish
            /\ UNCHANGED << procs, pc >>
       ELSE /\ terminateCalls' = 1
            /\ killCalls' = 0
            /\ procs' = Terminate(_process)
            /\ pc' = "stop_wait"
            /\ ret' = NoCall
            /\ UNCHANGED << _running, _process >>


\* Lines 132-139: the guard, terminate() and the entry into wait(timeout=2).
\* sig says whether the signal could be sent or terminate() raised.  No
\* try/finally: an exception of terminate() skips lines 144-145.
stop_begin(sig) ==
    /\ pc = "idle"
    /\ UNCHANGED << _samples, _start_time, peaks, threads, clock, emitted, aside >>
    /\ IF NotRunning
       THEN /\ ret' = StopRet("RuntimeError_not_running", "none")
            /\ UNCHANGED << _running, _process, procs, pc, terminateCalls, killCalls >>
       ELSE IF _process = NoProcess
       THEN /\ StopFinish
            /\ terminateCalls' = 0
            /\ killCalls' = 0
            /\ ret' = StopRet("ok", "none")
            /\ UNCHANGED << procs, pc >>
       ELSE IF TerminateRaises(sig)
       THEN /\ terminateCalls' = 1
            /\ killCalls' = 0
            /\ ret' = StopRet("OSError", "none")
            /\ UNCHANGED << _running, _process, procs, pc >>
       ELSE /\ terminateCalls' = 1
            /\ killCalls' = 0
            /\ procs' = Terminate(_process)
            /\ pc' = "stop_wait"
            /\ ret' = NoCall
            /\ UNCHANGED << _running, _process >>

\* A plain call of stop(): outside a with statement or in its body.
StopCall ==
    /\ scope # "exit"
    /\ exc = "none"
    /\ \E sig \in {"sent", "raises"} : stop_begin(sig)
    /\ UNCHANGED withvars

\* A stop() that kills the process although it exited in time.
StopWaitReturns_kills ==
    /\ pc = "stop_wait"
    /\ procs[_process] = "exited"
    /\ procs' = [procs EXCEPT ![_process] = "reaped"]
    /\ killCalls' = killCalls + 1
    /\ StopFinish
    /\ pc' = "idle"
    /\ ret' = StopRet("ok", "exited")
    /\ UNCHANGED << _samples, _start_time, peaks, threads, clock, terminateCalls,
                    withvars, emitted, aside >>

\* A stop() that empties the store on its way out.
StopWaitReturns_clears ==
    /\ pc = "stop_wait"
    /\ procs[_process] = "exited"
    /\ procs' = [procs EXCEPT ![_process] = "reaped"]
    /\ StopFinish
    /\ _samples' = << >>
    /\ pc' = "idle"
    /\ ret' = StopRet("ok", "exited")
    /\ UNCHANGED << _start_time, peaks, threads, clock,
                    terminateCalls, killCalls, withvars, emitted, aside >>

\* Line 139: wait(timeout=2) returns because the process has exited.
StopWaitReturns ==
    /\ pc = "stop_wait"
    /\ procs[_process] = "exited"
    /\ procs' = [procs EXCEPT ![_process] = "reaped"]
    /\ StopFinish
    /\ pc' = "idle"
    /\ ret' = StopRet("ok", "exited")
    /\ UNCHANGED << _samples, _start_time, peaks, threads, clock,
                    terminateCalls, killCalls, withvars, emitted, aside >>

\* A stop() that catches the timeout and waits again without kill().
StopWaitTimeout_noKill ==
    /\ pc = "stop_wait"
    /\ procs[_process] = "termed"
    /\ pc' = "stop_kill_wait"
    /\ ret' = NoCall
    /\ UNCHANGED << monitor, procs, clock, terminateCalls, killCalls, withvars,
                    emitted, aside >>

\* Lines 140-142: wait(timeout=2) raises TimeoutExpired; kill(), then wait().
StopWaitTimeout ==
    /\ pc = "stop_wait"
    /\ procs[_process] = "termed"
    /\ procs' = Kill(_process)
    /\ killCalls' = killCalls + 1
    /\ pc' = "stop_kill_wait"
    /\ ret' = NoCall
    /\ UNCHANGED << monitor, clock, terminateCalls, withvars, emitted, aside >>

\* A stop() that does not wait for the process it killed.
StopKillWaitReturns_noWait ==
    /\ pc = "stop_kill_wait"
    /\ StopFinish
    /\ pc' = "idle"
    /\ ret' = StopRet("ok", "timeout")
    /\ UNCHANGED << _samples, _start_time, peaks, threads, procs, clock,
                    terminateCalls, killCalls, withvars, emitted, aside >>

\* Line 142: the unbounded wait() returns.
StopKillWaitReturns ==
    /\ pc = "stop_kill_wait"
    /\ procs[_process] = "exited"
    /\ procs' = [procs EXCEPT ![_process] = "reaped"]
    /\ StopFinish
    /\ pc' = "idle"
    /\ ret' = StopRet("ok", "timeout")
    /\ UNCHANGED << _samples, _start_time, peaks, threads, clock,
                    terminateCalls, killCalls, withvars, emitted, aside >>

(* ------------------------- idle baseline: lock ------------------------- *)
\* A measure_idle_baseline that sleeps inside the critical section.
LockHeldAcrossWait_held == TRUE

\* measure_idle_baseline takes the store's lock to read the length and to
\* read the window, and not while it waits.
LockHeldAcrossWait == FALSE

\* The store's lock is held by the caller over more than one step.
StoreLocked == LockHeldAcrossWait /\ pc = "baseline_wait"

(* ---------------------------- environment ------------------------------ *)
\* A subprocess exits: by itself, on SIGTERM, or on SIGKILL.
ProcExit(p) ==
    /\ procs[p] \in {"alive", "termed", "dying"}
    /\ procs' = [procs EXCEPT ![p] = "exited"]
    /\ ret' = NoCall
    /\ UNCHANGED << monitor, clock, pc, terminateCalls, killCalls, withvars,
                    emitted, aside >>

ProcessExits == \E p \in Pids : ProcExit(p)

\* A process that got SIGKILL exits.
KilledProcessExits == \E p \in Pids : procs[p] = "dying" /\ ProcExit(p)

\* time.time() advances.
Tick ==
    /\ clock < MaxClock
    /\ clock' = clock + 1
    /\ ret' = NoCall
    /\ UNCHANGED << monitor, procs, pc, terminateCalls, killCalls, withvars,
                    emitted, aside >>

\* The sampling loop reads the next record of the subprocess, decodes it and
\* appends the sample to the store, the peaks following in the same step; a
\* record the decoder cannot read is dropped.  power_monitor.py holds no
\* sampling loop; this is the loop of the design description, active while
\* the monitor is Running.  An exception out of the decoder would end it.
ConsumeRecord(r) ==
    /\ _running
    /\ ~consumerDead
    /\ ~StoreLocked
    /\ Len(_samples) < MaxSamples
    /\ Len(emitted) < MaxRecords
    /\ emitted' = Append(emitted, r)
    /\ consumerDead' = (Decode(r).outcome = "raised")
    /\ _samples' = IF Decode(r).outcome = "sample"
                   THEN Append(_samples, Decode(r).sample)
                   ELSE _samples
    /\ peaks' = IF Decode(r).outcome = "sample"
                THEN UpdatePeaks(peaks, Decode(r).sample)
                ELSE peaks
    /\ ret' = NoCall
    /\ UNCHANGED << _running, _process, _start_time, threads, procs, clock, pc,
                    terminateCalls, killCalls, withvars, returned, rawIn, parsed,
                    phase, n0 >>
    /\ UNCHANGED others

Consume == \E r \in TelemetryRecords : ConsumeRecord(r)

(* -------------------------- with statement ----------------------------- *)
\* Lines 169-172: __enter__ calls start() and returns the monitor; the body
\* is entered only if start() did not raise.
Enter ==
    /\ scope = "none"
    /\ \E probe \in ProbeOutcomes, spawn \in SpawnOutcomes : start(probe, spawn)
    /\ scope' = IF ret'.result = "ok" THEN "body" ELSE "none"
    /\ exc' = "none"

\* The body of the with statement raises.
BodyRaises ==
    /\ scope = "body"
    /\ exc = "none"
    /\ pc = "idle"
    /\ exc' = "BodyError"
    /\ ret' = NoCall
    /\ UNCHANGED << monitor, procs, clock, pc, terminateCalls, killCalls, scope,
                    emitted, aside >>

\* An __exit__ that calls stop() whatever the state.
ExitCall_alwaysStops ==
    /\ scope = "body"
    /\ pc = "idle"
    /\ \E sig \in {"sent", "raises"} : stop_begin(sig)
    /\ IF ret'.op = "stop"
       THEN scope' = "none" /\ exc' = "none"
       ELSE scope' = "exit" /\ exc' = exc

\* Lines 174-177: __exit__ is called when the body is left, normally or by
\* an exception; it calls stop() if the monitor is still running.  An
\* exception out of stop() leaves __exit__ at once.
ExitCall ==
    /\ scope = "body"
    /\ pc = "idle"
    /\ IF ~_running
       THEN /\ scope' = "none"
            /\ exc' = "none"
            /\ ret' = ExitRet(IF exc = "none" THEN "ok" ELSE exc)
            /\ UNCHANGED << monitor, procs, clock, pc, terminateCalls, killCalls,
                            emitted, aside >>
       ELSE /\ \E sig \in {"sent", "raises"} : stop_begin(sig)
            /\ IF ret'.op = "stop" /\ ret'.result = "OSError"
               THEN scope' = "none" /\ exc' = "none"
               ELSE scope' = "exit" /\ exc' = exc

\* An __exit__ that returns True.
ExitReturn_suppresses ==
    /\ scope = "exit"
    /\ pc = "idle"
    /\ scope' = "none"
    /\ exc' = "none"
    /\ ret' = ExitRet("ok")
    /\ UNCHANGED << monitor, procs, clock, pc, terminateCalls, killCalls,
                    emitted, aside >>

\* Line 178: stop() has returned; __exit__ returns False, so an exception
\* of the body goes on to the caller.
ExitReturn ==
    /\ scope = "exit"
    /\ pc = "idle"
    /\ scope' = "none"
    /\ exc' = "none"
    /\ ret' = ExitRet(IF exc = "none" THEN "ok" ELSE exc)
    /\ UNCHANGED << monitor, procs, clock, pc, terminateCalls, killCalls,
                    emitted, aside >>

(* ------------------------------ readers -------------------------------- *)
\* Lines 151-158: get_samples(), from any thread at any time.
GetSamples ==
    /\ returned' = [kind |-> "list", items |-> get_samples,
                    alias |-> ~SnapshotIsCopy, mutated |-> FALSE,
                    value |-> NoSample]
    /\ ret' = ReadRet("get_samples")
    /\ UNCHANGED << monitor, procs, clock, pc, terminateCalls, killCalls,
                    withvars, emitted, consumerDead, decodervars, phase, n0 >>
    /\ UNCHANGED others

\* Lines 160-167: get_current().
GetCurrent ==
    /\ returned' = [kind |-> "sample", items |-> << >>, alias |-> FALSE,
                    mutated |-> FALSE, value |-> get_current]
    /\ ret' = ReadRet("get_current")
    /\ UNCHANGED << monitor, procs, clock, pc, terminateCalls, killCalls,
                    withvars, emitted, consumerDead, decodervars, phase, n0 >>
    /\ UNCHANGED others

\* What the list the caller holds becomes when the caller appends to it,
\* empties it or reorders it.
Mutated(q, how) ==
    CASE how = "append"  -> Append(q, ForeignSample)
      [] how = "clear"   -> << >>
      [] how = "reverse" -> Reverse(q)

\* The caller changes the list it got from get_samples().  The store
\* changes with it exactly if the two are the same object.
MutateReturned(how) ==
    /\ returned.kind = "list"
    /\ ~returned.mutated
    /\ returned' = [returned EXCEPT !.items = Mutated(returned.items, how),
                                    !.mutated = TRUE]
    /\ _samples' = IF returned.alias THEN Mutated(returned.items, how) ELSE _samples
    /\ ret' = ReadRet("mutate")
    /\ UNCHANGED << _running, _process, _start_time, peaks, threads, procs, clock,
                    pc, terminateCalls, killCalls, withvars, emitted,
                    consumerDead, decodervars, phase, n0 >>
    /\ UNCHANGED others

Mutate == \E how \in {"append", "clear", "reverse"} : MutateReturned(how)

(* ------------------------ idle baseline measurement -------------------- *)
\* A mean as numerator and denominator.
Rat(num, den) == [num |-> num, den |-> den]

\* A mean that divides by the count whatever it is.
Mean_unguarded(s, k) == Rat(s, k)

\* The arithmetic mean of k values of sum s; 0 for no values.
Mean(s, k) == IF k = 0 THEN Rat(0, 1) ELSE Rat(s, k)

\* A window that takes the whole store.
Window_whole(q, n) == q

\* The delta window: the samples with index >= n (counted from 0).
Window(q, n) == SubSeq(q, n + 1, Len(q))

\* The baseline over the samples of w.
BaselineOf(w) ==
    [baseline_sample_count |-> Len(w),
     baseline_power_mw |->
         Mean(SumSeq([i \in 1..Len(w) |-> w[i].total_power_mw]), Len(w)),
     baseline_cpu_power_mw |->
         Mean(SumSeq([i \in 1..Len(w) |-> w[i].cpu_power_mw]), Len(w)),
     baseline_gpu_power_mw |->
         Mean(SumSeq([i \in 1..Len(w) |-> w[i].gpu_power_mw]), Len(w)),
     baseline_ane_power_mw |->
         Mean(SumSeq([i \in 1..Len(w) |-> w[i].ane_power_mw]), Len(w)),
     baseline_dram_power_mw |->
         Mean(SumSeq([i \in 1..Len(w) |-> w[i].dram_power_mw]), Len(w))]

\* No division in the baseline b was by zero.
Divides(b) ==
    /\ b.baseline_power_mw.den # 0
    /\ b.baseline_cpu_power_mw.den # 0
    /\ b.baseline_gpu_power_mw.den # 0
    /\ b.baseline_ane_power_mw.den # 0
    /\ b.baseline_dram_power_mw.den # 0

\* A measure_idle_baseline without the precondition.
BaselineNotRunning_unguarded == FALSE

\* The precondition of measure_idle_baseline fails.
BaselineNotRunning == ~_running

\* measure_idle_baseline(duration_seconds), by the caller's thread: the
\* precondition, the length of the store, and the entry into the wait.
MeasureCall ==
    /\ pc = "idle"
    /\ IF BaselineNotRunning
       THEN /\ ret' = CallRet("measure_idle_baseline",
                              "RuntimeError_must_be_running", "none")
            /\ UNCHANGED << pc, n0 >>
       ELSE /\ n0' = Len(_samples)
            /\ pc' = "baseline_wait"
            /\ ret' = NoCall
    /\ UNCHANGED << monitor, procs, clock, terminateCalls, killCalls, withvars,
                    returned, emitted, consumerDead, decodervars, phase >>
    /\ UNCHANGED others

\* The wait of measure_idle_baseline is over: the means over the delta
\* window are returned.
MeasureReturn ==
    /\ pc = "baseline_wait"
    /\ pc' = "idle"
    /\ n0' = 0
    /\ IF Divides(BaselineOf(Window(_samples, n0)))
       THEN /\ ret' = CallRet("measure_idle_baseline", "ok", "none")
            /\ returned' = [kind |-> "baseline", items |-> << >>,
                            alias |-> FALSE, mutated |-> FALSE,
                            value |-> BaselineOf(Window(_samples, n0))]
       ELSE /\ ret' = CallRet("measure_idle_baseline", "ZeroDivisionError", "none")
            /\ UNCHANGED returned
    /\ UNCHANGED << monitor, procs, clock, terminateCalls, killCalls, withvars,
                    emitted, consumerDead, decodervars, phase >>
    /\ UNCHANGED others

(* ------------------------- availability probe -------------------------- *)
\* Lines 65-81: a call of is_available() by the caller; outcome is what the
\* probe's subprocess does.  A class method: no field of the monitor is read
\* or written.
IsAvailableCall(outcome) ==
    /\ pc = "idle"
    /\ ret' = CallRet("is_available",
                      IF ProbeEscapes(outcome) THEN "OSError"
                      ELSE IF is_available(outcome) THEN "True" ELSE "False",
                      outcome)
    /\ UNCHANGED << monitor, procs, clock, pc, terminateCalls, killCalls,
                    withvars, returned, emitted, consumerDead, decodervars,
                    phase, n0 >>
    /\ UNCHANGED others

IsAvailable == \E outcome \in ProbeOutcomes : IsAvailableCall(outcome)

(* ---------------------------- Phase Tracker ---------------------------- *)
\* A set_phase that takes any value.
ValidPhase_any(p) == TRUE

\* set_phase validates its argument against the closed set.
ValidPhase(p) == p \in Phases

\* A get_phase that answers with the phase of a new monitor.
get_phase_initial == "idle"

\* get_phase(): the current value.
get_phase == phase

\* set_phase(p), by the caller's thread: the value is stored if it is of the
\* closed set, otherwise the call fails and the phase stays.
set_phase(p) ==
    /\ pc = "idle"
    /\ IF ValidPhase(p)
       THEN /\ phase' = p
            /\ ret' = CallRet("set_phase", "ok", p)
       ELSE /\ phase' = phase
            /\ ret' = CallRet("set_phase", "ValueError_invalid_phase", p)
    /\ UNCHANGED << monitor, procs, clock, pc, terminateCalls, killCalls,
                    withvars, returned, emitted, consumerDead, decodervars, n0 >>
    /\ UNCHANGED others

SetPhase == \E p \in PhaseInputs : set_phase(p)

GetPhase ==
    /\ pc = "idle"
    /\ ret' = CallRet("get_phase", "ok", get_phase)
    /\ UNCHANGED << monitor, procs, clock, pc, terminateCalls, killCalls,
                    withvars, returned, emitted, consumerDead, decodervars,
                    phase, n0 >>
    /\ UNCHANGED others

(* ------------------------------ decoder -------------------------------- *)
\* The decoder is applied to the record.
ParseRecord ==
    /\ parsed = NotParsed
    /\ parsed' = Decode(rawIn)
    /\ ret' = NoCall
    /\ UNCHANGED << monitor, procs, clock, pc, terminateCalls, killCalls,
                    withvars, returned, emitted, consumerDead, rawIn, phase, n0 >>
    /\ UNCHANGED others

(* ---------------------------- LayerProfiler ---------------------------- *)
\* What the calls of the LayerProfiler leave alone.
monitorvars ==
    << monitor, procs, clock, pc, terminateCalls, killCalls, withvars,
       returned, emitted, consumerDead, decodervars, phase, n0, featvars >>

\* Lines 111-123: _get_layers, None when the path leads nowhere.
LayersFound == model.layers_found /\ Len(model.layers) > 0

\* Lines 105-106 and 134-147: the (layer, component) pairs in the order
\* register_hooks visits them; layer_idx counts from 0.
NumSlots == Len(model.layers) * Len(ComponentNames)

Slot(i) ==
    [layer_idx |-> (i - 1) \div Len(ComponentNames),
     component_name |-> ComponentNames[((i - 1) % Len(ComponentNames)) + 1]]

\* Lines 140 and 166-176: what _register_component_hook finds for a slot;
\* gate_proj is not looked for when there is no path for it.
KindOf(s) ==
    IF s.component_name = "gate_proj" /\ ~component_paths.gate_proj
    THEN "absent"
    ELSE model.layers[s.layer_idx + 1][s.component_name]

\* The first slot on which line 233 raises; NumSlots + 1 when there is none.
FirstFailure ==
    IF \E i \in 1..NumSlots : KindOf(Slot(i)) = "not_module"
    THEN CHOOSE i \in 1..NumSlots :
            /\ KindOf(Slot(i)) = "not_module"
            /\ \A j \in 1..(i - 1) : KindOf(Slot(j)) # "not_module"
    ELSE NumSlots + 1

\* The slots that get their hooks before the loop ends or raises.
HookedSlots ==
    SelectSeq([i \in 1..(FirstFailure - 1) |-> Slot(i)],
              LAMBDA s : KindOf(s) = "module")

\* Lines 233-238: the handles one register_hooks call appends, a pre-hook
\* and a post-hook for every hooked slot.
NewHandles(n) ==
    [j \in 1..(2 * Len(HookedSlots)) |->
        LET s == HookedSlots[(j + 1) \div 2]
        IN  Hook(n, s.layer_idx, s.component_name,
                 IF j % 2 = 1 THEN "pre" ELSE "post")]

SeqRange(q) == {q[i] : i \in 1..Len(q)}

\* A register_hooks without the guard of line 92.
AlreadyRegistered_unguarded == FALSE

\* Line 92
AlreadyRegistered == _hooks_registered

\* How a register_hooks call ends in the present state: the early return
\* of lines 92-94, the ValueError of line 102, the AttributeError of line
\* 233, or a normal return.
RegisterResult ==
    IF AlreadyRegistered THEN "skipped"
    ELSE IF ~LayersFound THEN "ValueError"
    ELSE IF FirstFailure <= NumSlots THEN "AttributeError"
    ELSE "ok"

\* Lines 92-109: register_hooks.  Nothing is undone when line 233 raises:
\* the hooks installed so far stay on the model and in hook_handles, and
\* line 108 is not reached.
register_hooks ==
    IF RegisterResult \in {"skipped", "ValueError"}
    THEN UNCHANGED << hooks, hook_handles, _hooks_registered, registrations >>
    ELSE /\ registrations < MaxRegistrations
         /\ registrations' = registrations + 1
         /\ hooks' = hooks \cup SeqRange(NewHandles(registrations + 1))
         /\ hook_handles' = hook_handles \o NewHandles(registrations + 1)
         /\ _hooks_registered' = (RegisterResult = "ok")

RegisterHooks ==
    /\ register_hooks
    /\ ret' = CallRet("register_hooks", RegisterResult, Len(hook_handles'))
    /\ UNCHANGED << model, component_paths, timings, removeCalls, pscope >>
    /\ UNCHANGED monitorvars

\* The number of times h is in q.
Occurrences(h, q) == Cardinality({i \in 1..Len(q) : q[i] = h})

\* A detach() that leaves the profiler marked registered.
detach_keepsFlag ==
    /\ hooks' = hooks \ SeqRange(hook_handles)
    /\ removeCalls' =
           [h \in DOMAIN removeCalls \cup SeqRange(hook_handles) |->
               (IF h \in DOMAIN removeCalls THEN removeCalls[h] ELSE 0)
                   + Occurrences(h, hook_handles)]
    /\ hook_handles' = << >>
    /\ UNCHANGED << _hooks_registered, timings >>

\* Lines 263-269: detach calls remove() on every stored handle, clears the
\* list and the flag; timings is not touched.
detach ==
    /\ hooks' = hooks \ SeqRange(hook_handles)
    /\ removeCalls' =
           [h \in DOMAIN removeCalls \cup SeqRange(hook_handles) |->
               (IF h \in DOMAIN removeCalls THEN removeCalls[h] ELSE 0)
                   + Occurrences(h, hook_handles)]
    /\ hook_handles' = << >>
    /\ _hooks_registered' = FALSE
    /\ UNCHANGED timings

Detach ==
    /\ detach
    /\ ret' = CallRet("detach", "ok", Len(hook_handles))
    /\ UNCHANGED << model, component_paths, registrations, pscope >>
    /\ UNCHANGED monitorvars

\* Lines 249-255: reset
Reset ==
    /\ timings' = << >>
    /\ ret' = CallRet("reset", "ok", Len(timings))
    /\ UNCHANGED << model, component_paths, hooks, hook_handles,
                    _hooks_registered, removeCalls, registrations, pscope >>
    /\ UNCHANGED monitorvars

\* The post-hooks installed on the module of slot s.
PostHooksOn(s) ==
    {h \in hooks : /\ h.layer_idx = s.layer_idx
                   /\ h.component_name = s.component_name
                   /\ h.kind = "post"}

RECURSIVE PassTimings(_)
\* Lines 185-230: what one forward pass of the model appends to timings,
\* from slot i on: every post-hook of every module appends one record.
PassTimings(i) ==
    IF i > NumSlots THEN << >>
    ELSE [j \in 1..Cardinality(PostHooksOn(Slot(i))) |->
              ComponentTiming(Slot(i).component_name, Slot(i).layer_idx)]
         \o PassTimings(i + 1)

\* The model runs one forward pass while hooks are installed.
ForwardPass ==
    /\ hooks # {}
    /\ Len(timings) < MaxTimings
    /\ timings' = timings \o PassTimings(1)
    /\ ret' = NoCall
    /\ UNCHANGED << model, component_paths, hooks, hook_handles,
                    _hooks_registered, removeCalls, registrations, pscope >>
    /\ UNCHANGED monitorvars

\* Lines 271-274: __enter__; the body is entered only when register_hooks
\* returns.
ProfilerEnter ==
    /\ pscope = "none"
    /\ register_hooks
    /\ ret' = CallRet("profiler_enter", RegisterResult, Len(hook_handles'))
    /\ pscope' = IF RegisterResult \in {"ok", "skipped"} THEN "body" ELSE "none"
    /\ UNCHANGED << model, component_paths, timings, removeCalls >>
    /\ UNCHANGED monitorvars

\* Lines 276-279: __exit__ calls detach() and returns False, so an
\* exception of the body goes on to the caller.
ProfilerExit ==
    /\ pscope = "body"
    /\ detach
    /\ \E raised \in BOOLEAN :
          ret' = CallRet("profiler_exit", IF raised THEN "BodyError" ELSE "ok",
                         Len(hook_handles))
    /\ pscope' = "none"
    /\ UNCHANGED << model, component_paths, registrations >>
    /\ UNCHANGED monitorvars

(* ----------------------- extract_model_features ------------------------ *)
\* Lines 88-156: one call of extract_model_features on the configuration.
ExtractFeatures ==
    /\ features = NotExtracted
    /\ features' = extract_model_features(config)
    /\ ret' = CallRet("extract_model_features", features'.outcome,
                      features'.attention_params_per_layer)
    /\ UNCHANGED << monitor, procs, clock, pc, terminateCalls, killCalls,
                    withvars, returned, emitted, consumerDead, decodervars,
                    phase, n0, profvars, config >>

(* --------------------------- specifications ---------------------------- *)
Next ==
    \/ Start
    \/ Enter
    \/ BodyRaises
    \/ ExitCall
    \/ ExitReturn
    \/ StopCall
    \/ StopWaitReturns
    \/ StopWaitTimeout
    \/ StopKillWaitReturns
    \/ ProcessExits
    \/ Tick
    \/ Consume

Spec == Init /\ [][Next]_vars

\* The monitor with callers that read the store: plain start(), a stop()
\* whose process exits on SIGTERM, the sampling loop, and the readers.
ReaderNext ==
    \/ Start
    \/ StopCall
    \/ StopWaitReturns
    \/ ProcessExits
    \/ Consume
    \/ GetSamples
    \/ GetCurrent
    \/ Mutate

ReaderSpec == Init /\ [][ReaderNext]_vars

\* The monitor with a caller that drives the Phase Tracker and the probe:
\* plain start(), a stop() whose process exits on SIGTERM, the sampling loop,
\* set_phase, get_phase and is_available.
TrackerNext ==
    \/ Start
    \/ StopCall
    \/ StopWaitReturns
    \/ ProcessExits
    \/ Consume
    \/ SetPhase
    \/ GetPhase
    \/ IsAvailable

TrackerSpec == Init /\ [][TrackerNext]_vars

\* The monitor with a caller that measures the idle baseline: plain start(),
\* a stop() whose process exits on SIGTERM, the sampling loop and
\* measure_idle_baseline.
BaselineNext ==
    \/ Start
    \/ StopCall
    \/ StopWaitReturns
    \/ ProcessExits
    \/ Consume
    \/ MeasureCall
    \/ MeasureReturn

BaselineSpec == Init /\ [][BaselineNext]_vars

\* The decoder alone, on every record within the bounds.
DecodeNext == ParseRecord

DecodeSpec == DecodeInit /\ [][DecodeNext]_vars

\* A LayerProfiler and its caller: register_hooks, detach, reset, the with
\* statement, and forward passes of the model.
ProfilerNext ==
    \/ RegisterHooks
    \/ Detach
    \/ Reset
    \/ ForwardPass
    \/ ProfilerEnter
    \/ ProfilerExit

ProfilerSpec == ProfilerInit /\ [][ProfilerNext]_vars

\* extract_model_features alone, on every configuration within the bounds.
FeaturesNext == ExtractFeatures

FeaturesSpec == FeaturesInit /\ [][FeaturesNext]_vars

\* wait(timeout=2) returns or times out within two seconds, the wait() after
\* kill() returns once the process has exited, and a process that got
\* SIGKILL exits.
FairSpec ==
    /\ Spec
    /\ WF_vars(StopWaitReturns)
    /\ WF_vars(StopWaitTimeout)
    /\ WF_vars(StopKillWaitReturns)
    /\ WF_vars(KilledProcessExits)

(* ------------------------ properties of start/stop --------------------- *)
LifecycleFields == << _running, _process, _samples, _start_time, peaks, threads >>

\* C1: start() while the monitor is Running raises the already-running
\* RuntimeError and changes nothing: the same subprocess stays the handle, no
\* process and no consumer thread is created, the store is not cleared.
C1_StartWhileRunning ==
    [][ (_running /\ pc = "idle" /\ ret'.op = "start") =>
            /\ ret'.result = "RuntimeError_already_running"
            /\ UNCHANGED << LifecycleFields, procs >> ]_vars

C1_Witness ==
    /\ ret.op = "start"
    /\ ret.result = "RuntimeError_already_running"
    /\ _running
    /\ Len(_samples) > 0

\* C2: stop() while the monitor is Stopped raises the not-running
\* RuntimeError, signals no process and leaves state and store as they were.
C2_StopWhileStopped ==
    [][ (~_running /\ pc = "idle" /\ ret'.op = "stop") =>
            /\ ret'.result = "RuntimeError_not_running"
            /\ UNCHANGED << LifecycleFields, procs, terminateCalls, killCalls >> ]_vars

C2_Witness ==
    /\ ret.op = "stop"
    /\ ret.result = "RuntimeError_not_running"
    /\ ~_running
    /\ Len(_samples) > 0

\* C3: after a stop() that returns, is_running() is False; that stop() called
\* terminate() exactly once, and kill() if and only if the wait after
\* terminate() timed out.
C3_StopSignals ==
    (ret.op = "stop" /\ ret.result = "ok") =>
        /\ ~is_running
        /\ terminateCalls = 1
        /\ killCalls \in {0, 1}
        /\ (killCalls = 1 <=> ret.wait = "timeout")

C3_Witness ==
    /\ ret.op = "stop"
    /\ ret.result = "ok"
    /\ ret.wait = "timeout"
    /\ terminateCalls = 1
    /\ killCalls = 1

\* C4: when stop() returns, no consumer thread is alive and the subprocess
\* handle is released (and the process waited for), whether the process
\* exited in time or was killed.
C4_StopReleases ==
    (ret.op = "stop" /\ ret.result = "ok") =>
        /\ threads = 0
        /\ _process = NoProcess
        /\ \A p \in Pids : procs[p] \in {"unborn", "reaped"}

C4_Witness ==
    /\ ret.op = "stop"
    /\ ret.result = "ok"
    /\ ret.wait = "exited"
    /\ _process = NoProcess
    /\ \E p \in Pids : procs[p] = "reaped"

\* C5: a stop() that is waiting for a subprocess that has not reacted to
\* SIGTERM completes without an error and leaves the monitor Stopped, given
\* that a killed process exits.
C5_StopCompletes ==
    (pc = "stop_wait" /\ procs[_process] = "termed")
        ~> (ret.op = "stop" /\ ret.result = "ok" /\ ~_running /\ pc = "idle")

C5_Witness ==
    /\ ret.op = "stop"
    /\ ret.result = "ok"
    /\ ret.wait = "timeout"
    /\ ~_running
    /\ pc = "idle"

\* C6: when the probe reports unavailable, start() on a Stopped monitor
\* raises PermissionError, spawns nothing and leaves the monitor Stopped.
C6_StartUnavailable ==
    [][ (/\ ~_running /\ pc = "idle" /\ ret'.op = "start"
         /\ ret'.probe \in ProbeOutcomes
         /\ ~ProbeEscapes(ret'.probe)
         /\ ~is_available(ret'.probe)) =>
            /\ ret'.result = "PermissionError"
            /\ ~_running'
            /\ UNCHANGED << LifecycleFields, procs >> ]_vars

C6_Witness ==
    /\ ret.op = "start"
    /\ ret.result = "PermissionError"
    /\ ret.probe \in {"rc1", "timeout", "notfound"}
    /\ ~_running
    /\ \E p \in Pids : procs[p] = "reaped"

\* C7: if the subprocess has already exited when start() looks at it right
\* after spawning, start() raises the immediate-exit RuntimeError and the
\* monitor does not enter Running.
C7_ImmediateExit ==
    (ret.op = "start" /\ ret.spawn = "exited") =>
        /\ ret.result = "RuntimeError_terminated_immediately"
        /\ ~_running

\* C8: however start() fails on a Stopped monitor (probe unavailable, Popen
\* raising, subprocess gone right after the spawn), the monitor is Stopped
\* afterwards, with no thread, no handle, and store, peaks and start time as
\* before the call.
C8_FailedStartLeavesNothing ==
    [][ (/\ ~_running /\ pc = "idle" /\ ret'.op = "start"
         /\ \/ ret'.probe \in {"rc1", "timeout", "notfound"}
            \/ ret'.spawn \in {"raises", "exited"}) =>
            /\ ~_running'
            /\ threads' = 0
            /\ _process' = NoProcess
            /\ UNCHANGED << _samples, peaks, _start_time >> ]_vars

\* C9: before the first start and right after every successful start() the
\* store is empty and the five peaks are 0; a successful start() records the
\* start time and leaves the monitor Running.
C9_FreshAfterStart ==
    /\ (\A p \in Pids : procs[p] = "unborn") =>
            (_samples = << >> /\ peaks = ZeroPeaks)
    /\ (ret.op = "start" /\ ret.result = "ok") =>
            /\ _samples = << >>
            /\ peaks = ZeroPeaks
            /\ _start_time = clock
            /\ _running

\* C10: a Running monitor has exactly one consumer thread, a Stopped one has
\* none.
C10_OneConsumerThread ==
    /\ _running => threads = 1
    /\ ~_running => threads = 0

C12_StopKeepsStore ==
    [][ /\ (ret'.op = "stop" \/ pc' # pc) => _samples' = _samples
        /\ (~_running /\ _samples' # _samples) =>
               (ret'.op = "start" /\ ret'.result = "ok" /\ _samples' = << >>) ]_vars

C12_Witness ==
    /\ ~_running
    /\ ret.op = "stop"
    /\ ret.result = "ok"
    /\ Len(_samples) = MaxSamples

\* C13: get_samples() gives the caller the store's content and leaves the
\* store alone, and whatever the caller then does to the list it was given
\* (append, empty, reorder) does not change the store.
C13_SnapshotIsCopy ==
    [][ /\ ret'.op = "get_samples" =>
               (returned'.items = _samples /\ _samples' = _samples)
        /\ ret'.op = "mutate" => _samples' = _samples ]_vars

C13_Witness ==
    /\ ret.op = "mutate"
    /\ Len(_samples) > 0
    /\ returned.items # _samples
    /\ get_samples = _samples

\* The sample of the last readable record of q, NoSample if q has none.
RECURSIVE LastDecoded(_)
LastDecoded(q) ==
    IF Len(q) = 0 THEN NoSample
    ELSE IF q[Len(q)].wellformed /\ q[Len(q)].processor
         THEN DecodeSample(q[Len(q)])
         ELSE LastDecoded(SubSeq(q, 1, Len(q) - 1))

\* C14: get_current() returns the last element of what get_samples() would
\* return at that moment, the sample of the latest readable record of this
\* run, and "no sample" exactly when the store is empty.
C14_CurrentIsLast ==
    ret.op = "get_current" =>
        /\ (returned.value = NoSample) <=> (Len(get_samples) = 0)
        /\ Len(get_samples) > 0 => returned.value = get_samples[Len(get_samples)]
        /\ returned.value = LastDecoded(emitted)

C14_Witness ==
    /\ ret.op = "get_current"
    /\ Len(_samples) = 2
    /\ _samples[1] # _samples[2]
    /\ returned.value = _samples[2]

\* The samples of the readable records of q, in the order of q.
RECURSIVE DecodedSeq(_)
DecodedSeq(q) ==
    IF Len(q) = 0 THEN << >>
    ELSE IF Head(q).wellformed /\ Head(q).processor
         THEN << DecodeSample(Head(q)) >> \o DecodedSeq(Tail(q))
         ELSE DecodedSeq(Tail(q))

\* C15: the store is the sequence of the samples of the readable records
\* read so far in this run, in the order read, nothing reordered and no
\* duplicate dropped; within a run the store only grows at its end, so an
\* earlier snapshot is a prefix of a later one.
C15_AppendInOrder ==
    /\ [](_samples = DecodedSeq(emitted))
    /\ [][ (_samples' # _samples /\ ret'.op # "start") =>
               /\ Len(_samples') = Len(_samples) + 1
               /\ SubSeq(_samples', 1, Len(_samples)) = _samples ]_vars

C15_Witness ==
    /\ _running
    /\ Len(emitted) = 3
    /\ Len(_samples) = 2
    /\ _samples[1] = _samples[2]

(* ----------------------- properties of the peaks ----------------------- *)
SetMax(S) == CHOOSE m \in S : \A x \in S : m >= x

\* The five maxima over the samples of q, 0 where q is empty.
PeaksOf(q) ==
    [peak_power_mw      |-> SetMax({0} \cup {q[i].total_power_mw : i \in DOMAIN q}),
     peak_power_cpu_mw  |-> SetMax({0} \cup {q[i].cpu_power_mw : i \in DOMAIN q}),
     peak_power_gpu_mw  |-> SetMax({0} \cup {q[i].gpu_power_mw : i \in DOMAIN q}),
     peak_power_ane_mw  |-> SetMax({0} \cup {q[i].ane_power_mw : i \in DOMAIN q}),
     peak_power_dram_mw |-> SetMax({0} \cup {q[i].dram_power_mw : i \in DOMAIN q})]

\* C16: each of the five peaks is the maximum of its own channel over the
\* samples appended since the last successful start, which are the samples
\* of the store.
C16_PeaksPerChannel ==
    peaks = PeaksOf(_samples)

\* C17: the peaks change together with the store: after every step that
\* changes the store, by an append or by the clearing of a start, the peaks
\* are those of exactly the samples then in the store.
C17_PeaksFollowStore ==
    [][ _samples' # _samples => peaks' = PeaksOf(_samples') ]_vars

(* ---------------------- properties of the decoder ---------------------- *)
\* C18: the total of every sample the decoder produces is the sum of its
\* CPU, GPU, ANE and DRAM values, whatever total the record states.
C18_TotalIsSum ==
    parsed.outcome = "sample" =>
        parsed.sample.total_power_mw =
            parsed.sample.cpu_power_mw + parsed.sample.gpu_power_mw
              + parsed.sample.ane_power_mw + parsed.sample.dram_power_mw

C18_Witness ==
    /\ parsed.outcome = "sample"
    /\ parsed.sample.total_power_mw > 0
    /\ rawIn.reported # parsed.sample.total_power_mw

RECURSIVE SumFirst(_, _)
SumFirst(q, n) == IF n = 0 THEN 0 ELSE q[n] + SumFirst(q, n - 1)

\* C19: a channel the record does not have decodes to 0; the CPU value is
\* the sum over all clusters and the DRAM value the sum over all channel
\* entries; a record with CPU clusters only gives GPU, ANE and DRAM 0 and a
\* total equal to the CPU sum.
C19_MissingIsZero ==
    parsed.outcome = "sample" =>
        /\ parsed.sample.cpu_power_mw = SumFirst(rawIn.clusters, Len(rawIn.clusters))
        /\ parsed.sample.dram_power_mw = SumFirst(rawIn.channels, Len(rawIn.channels))
        /\ parsed.sample.gpu_power_mw = (IF rawIn.gpu = Absent THEN 0 ELSE rawIn.gpu)
        /\ parsed.sample.ane_power_mw = (IF rawIn.ane = Absent THEN 0 ELSE rawIn.ane)
        /\ (rawIn.gpu = Absent /\ rawIn.ane = Absent /\ Len(rawIn.channels) = 0) =>
               /\ parsed.sample.gpu_power_mw = 0
               /\ parsed.sample.ane_power_mw = 0
               /\ parsed.sample.dram_power_mw = 0
               /\ parsed.sample.total_power_mw =
                      SumFirst(rawIn.clusters, Len(rawIn.clusters))

C19_Witness ==
    /\ parsed.outcome = "sample"
    /\ Len(rawIn.clusters) = 2
    /\ rawIn.clusters[1] = 1
    /\ rawIn.clusters[2] = 1
    /\ rawIn.gpu = Absent
    /\ rawIn.ane = Absent
    /\ Len(rawIn.channels) = 0
    /\ parsed.sample.cpu_power_mw = 2
    /\ parsed.sample.total_power_mw = 2

\* A record the decoder cannot read.
InvalidRecord(r) == ~r.wellformed \/ ~r.processor

\* C20: a record that cannot be decoded raises nothing out of the sampling
\* loop and does not end it, adds nothing to the store and leaves the peaks
\* and the Running state alone; a readable record read after it is
\* appended.
C20_InvalidRecordDropped ==
    /\ [](~consumerDead)
    /\ [][ Len(emitted') = Len(emitted) + 1 =>
               IF InvalidRecord(emitted'[Len(emitted')])
               THEN /\ UNCHANGED << _samples, peaks, _running >>
                    /\ _running'
               ELSE /\ Len(_samples') = Len(_samples) + 1
                    /\ _samples'[Len(_samples')].cpu_power_mw =
                          SumFirst(emitted'[Len(emitted')].clusters,
                                   Len(emitted'[Len(emitted')].clusters)) ]_vars

C20_Witness ==
    /\ _running
    /\ Len(emitted) = 2
    /\ InvalidRecord(emitted[1])
    /\ ~InvalidRecord(emitted[2])
    /\ Len(_samples) = 1
    /\ _samples[1] = DecodeSample(emitted[2])

(* ------------------- properties of the Phase Tracker ------------------- *)
\* C21: set_phase with a value outside the closed set fails with the
\* invalid-phase ValueError and leaves the phase as it was.
C21_InvalidPhaseRejected ==
    [][ (ret'.op = "set_phase" /\ ret'.value \notin Phases) =>
            /\ ret'.result = "ValueError_invalid_phase"
            /\ phase' = phase ]_vars

C21_Witness ==
    /\ ret.op = "set_phase"
    /\ ret.result = "ValueError_invalid_phase"
    /\ ret.value = "invalid_phase"
    /\ phase = "prefill"
    /\ _running

\* C22: the phase of a new monitor is idle; set_phase with a value of the
\* closed set makes it the phase, nothing else changes the phase, and
\* get_phase returns the phase, whether the monitor is Stopped or Running.
C22_PhaseIsLastSet ==
    /\ phase = "idle"
    /\ [][ /\ (ret'.op = "set_phase" /\ ret'.value \in Phases) =>
                   (ret'.result = "ok" /\ phase' = ret'.value)
           /\ ret'.op # "set_phase" => phase' = phase
           /\ ret'.op = "get_phase" => (ret'.result = "ok" /\ ret'.value = phase) ]_vars

C22_Witness ==
    /\ ret.op = "get_phase"
    /\ ret.value = "decode"
    /\ ~_running
    /\ Len(_samples) > 0

\* C23: the sample appended to the store carries the phase the Phase Tracker
\* has when the record is decoded, and the samples already in the store
\* keep theirs.
C23_SampleTaggedWithPhase ==
    [][ Len(_samples') = Len(_samples) + 1 =>
            /\ "phase" \in DOMAIN _samples'[Len(_samples')]
            /\ _samples'[Len(_samples')].phase = phase
            /\ SubSeq(_samples', 1, Len(_samples)) = _samples ]_vars

\* C24: every sample in the store carries a phase of the closed set.
C24_StoredPhaseInClosedSet ==
    \A i \in DOMAIN _samples :
        /\ "phase" \in DOMAIN _samples[i]
        /\ _samples[i].phase \in Phases

BaselineMeans(b) ==
    << b.baseline_power_mw, b.baseline_cpu_power_mw, b.baseline_gpu_power_mw,
       b.baseline_ane_power_mw, b.baseline_dram_power_mw >>

\* C25: measure_idle_baseline on a Stopped monitor fails with the
\* must-be-running RuntimeError, does not enter the wait and leaves the
\* store and the monitor as they were.
C25_BaselineWhileStopped ==
    [][ (~_running /\ pc = "idle") =>
            /\ pc' # "baseline_wait"
            /\ ret'.op = "measure_idle_baseline" =>
                   /\ ret'.result = "RuntimeError_must_be_running"
                   /\ UNCHANGED << LifecycleFields, procs, returned >> ]_vars

C25_Witness ==
    /\ ret.op = "measure_idle_baseline"
    /\ ret.result = "RuntimeError_must_be_running"
    /\ ~_running
    /\ pc = "idle"
    /\ Len(_samples) > 0

\* The sum of channel ch over the samples of q with index above lo, up to hi.
RECURSIVE ChannelSum(_, _, _, _)
ChannelSum(q, ch, lo, hi) ==
    IF hi <= lo THEN 0 ELSE q[hi][ch] + ChannelSum(q, ch, lo, hi - 1)

\* C26: the length of the store is taken when measure_idle_baseline is
\* called, the store only grows at its end while the caller waits, and the
\* call returns as count the number k of samples appended since the call
\* and as means the sums over those k samples divided by k, the samples
\* that were there before left out.
C26_BaselineOverDeltaWindow ==
    [][ /\ (pc = "idle" /\ pc' = "baseline_wait") => n0' = Len(_samples)
        /\ (pc = "baseline_wait" /\ pc' = "baseline_wait") =>
               /\ n0' = n0
               /\ Len(_samples') >= Len(_samples)
               /\ SubSeq(_samples', 1, Len(_samples)) = _samples
        /\ (pc = "baseline_wait" /\ pc' = "idle" /\ Len(_samples) > n0) =>
               /\ ret'.result = "ok"
               /\ returned'.value.baseline_sample_count = Len(_samples) - n0
               /\ returned'.value.baseline_power_mw =
                      Rat(ChannelSum(_samples, "total_power_mw", n0, Len(_samples)),
                          Len(_samples) - n0)
               /\ returned'.value.baseline_cpu_power_mw =
                      Rat(ChannelSum(_samples, "cpu_power_mw", n0, Len(_samples)),
                          Len(_samples) - n0)
               /\ returned'.value.baseline_gpu_power_mw =
                      Rat(ChannelSum(_samples, "gpu_power_mw", n0, Len(_samples)),
                          Len(_samples) - n0)
               /\ returned'.value.baseline_ane_power_mw =
                      Rat(ChannelSum(_samples, "ane_power_mw", n0, Len(_samples)),
                          Len(_samples) - n0)
               /\ returned'.value.baseline_dram_power_mw =
                      Rat(ChannelSum(_samples, "dram_power_mw", n0, Len(_samples)),
                          Len(_samples) - n0) ]_vars

C26_Witness ==
    /\ ret.op = "measure_idle_baseline"
    /\ ret.result = "ok"
    /\ Len(_samples) = 2
    /\ _samples[1].cpu_power_mw = 1
    /\ _samples[2].cpu_power_mw = 2
    /\ returned.kind = "baseline"
    /\ returned.value.baseline_sample_count = 1
    /\ returned.value.baseline_cpu_power_mw = Rat(2, 1)

\* C27: when nothing was appended while measure_idle_baseline waited, it
\* returns count 0 and the mean 0 for the total and for every channel, and
\* no division by zero ends the call.
C27_EmptyWindowIsZero ==
    [][ (pc = "baseline_wait" /\ pc' = "idle" /\ Len(_samples) = n0) =>
            /\ ret'.op = "measure_idle_baseline"
            /\ ret'.result = "ok"
            /\ returned'.kind = "baseline"
            /\ returned'.value.baseline_sample_count = 0
            /\ \A i \in 1..5 : BaselineMeans(returned'.value)[i] = Rat(0, 1) ]_vars

C27_Witness ==
    /\ ret.op = "measure_idle_baseline"
    /\ ret.result = "ok"
    /\ returned.kind = "baseline"
    /\ returned.value.baseline_sample_count = 0
    /\ returned.value.baseline_power_mw = Rat(0, 1)
    /\ Len(_samples) > 0

\* C28: while the caller waits inside measure_idle_baseline the sampling
\* loop can take its next step whenever it has a record to read.
C28_ConsumerNotBlocked ==
    (/\ pc = "baseline_wait"
     /\ _running
     /\ ~consumerDead
     /\ Len(_samples) < MaxSamples
     /\ Len(emitted) < MaxRecords) => ENABLED Consume

C28_Witness ==
    /\ pc = "baseline_wait"
    /\ ret = NoCall
    /\ Len(_samples) > n0
    /\ n0 > 0

(* ---------------------- properties of the lifecycle -------------------- *)
\* C30: a new monitor is Stopped; is_running() becomes True exactly by a
\* start() that succeeds and False exactly by a stop() that returns; and a
\* start() on a Stopped monitor, again after any number of runs, succeeds
\* when the probe passes and the subprocess can be spawned.
C30_TwoStateCycle ==
    /\ ~is_running
    /\ [][ /\ (~_running /\ _running') => (ret'.op = "start" /\ ret'.result = "ok")
           /\ (_running /\ ~_running') => (ret'.op = "stop" /\ ret'.result = "ok")
           /\ (ret'.op = "start" /\ ret'.result = "ok") => _running'
           /\ (ret'.op = "stop" /\ ret'.result = "ok") => ~_running'
           /\ (~_running /\ pc = "idle" /\ ret'.op = "start") =>
                  /\ ret'.result # "RuntimeError_already_running"
                  /\ (ret'.probe = "rc0" /\ ret'.spawn # "raises") =>
                         ret'.result = "ok" ]_vars

C30_Witness ==
    /\ is_running
    /\ ret.op = "start"
    /\ ret.result = "ok"
    /\ _process = MaxSpawn
    /\ procs[1] = "reaped"

(* ------------------- properties of handle and process ------------------ *)
\* C31: leaving the with statement of a monitor its body has already stopped
\* calls no stop(): nothing is signalled, no not-running error is raised,
\* only an exception of the body goes on, and the monitor stays Stopped.
C31_ExitAfterBodyStopped ==
    [][ (scope = "body" /\ ~_running /\ scope' # "body") =>
            /\ ret'.op = "exit"
            /\ ret'.result \in {"ok", "BodyError"}
            /\ ret'.result = "BodyError" <=> exc = "BodyError"
            /\ ~_running'
            /\ UNCHANGED << LifecycleFields, procs, terminateCalls, killCalls >> ]_vars

C31_Witness ==
    /\ scope = "none"
    /\ ret.op = "exit"
    /\ ret.result = "ok"
    /\ ~_running
    /\ terminateCalls = 1
    /\ killCalls = 0
    /\ \E p \in Pids : procs[p] = "reaped"

\* C32: in every reachable state is_running() is True exactly when the
\* monitor holds a subprocess handle.
C32_RunningIffHandle ==
    is_running <=> (_process # NoProcess)

C32_Witness ==
    /\ ret.op = "stop"
    /\ ret.result = "OSError"
    /\ is_running
    /\ _process # NoProcess

\* The processes that were spawned and have not been waited on.
Unreaped == {p \in Pids : procs[p] \in {"alive", "termed", "dying", "exited"}}

\* C33: at most one subprocess that has not been waited on exists, it is the
\* one whose handle the monitor holds, none exists while the monitor is
\* Stopped, and a handle is given up only for a process that has been
\* waited on.
C33_NoLeakedProcess ==
    /\ [](Unreaped \subseteq {_process})
    /\ [](~_running => Unreaped = {})
    /\ [][ (_process # NoProcess /\ _process' # _process) =>
               procs'[_process] = "reaped" ]_vars

C33_Witness ==
    /\ ~_running
    /\ ret.op = "stop"
    /\ ret.wait = "timeout"
    /\ killCalls = 1
    /\ \A p \in Pids : procs[p] = "reaped"

\* C34: a stop() that ends with the error of terminate() leaves the monitor
\* Running with the handle it had, and a stop() can be begun again.
C34_FailedStopKeepsRunning ==
    /\ [][ (ret'.op = "stop" /\ ret'.result = "OSError") =>
               /\ _running /\ _running'
               /\ _process # NoProcess
               /\ _process' = _process
               /\ pc' = "idle" ]_vars
    /\ []((ret.op = "stop" /\ ret.result = "OSError") => ENABLED StopCall)

C34_Witness ==
    /\ ret.op = "stop"
    /\ ret.result = "OSError"
    /\ _running
    /\ scope = "none"
    /\ pc = "idle"
    /\ procs[_process] = "alive"

\* C35: when the subprocess exits by itself is_running() does not change;
\* a stop() begun on a monitor whose subprocess has exited raises nothing,
\* and its wait returns with the monitor Stopped.
C35_ExitDoesNotStopMonitor ==
    [][ /\ (ret' = NoCall /\ pc' = pc /\ procs' # procs) =>
               (is_running' <=> is_running)
        /\ (pc = "idle" /\ _running /\ _process # NoProcess
               /\ procs[_process] = "exited") => ret'.op # "stop"
        /\ (pc = "stop_wait" /\ procs[_process] = "exited" /\ pc' # pc) =>
               /\ ret'.op = "stop"
               /\ ret'.result = "ok"
               /\ ~is_running' ]_vars

C35_Witness ==
    /\ ret.op = "stop"
    /\ ret.result = "ok"
    /\ ret.wait = "exited"
    /\ ~is_running
    /\ terminateCalls = 1
    /\ \E p \in Pids : procs[p] = "reaped"

(* -------------------- properties of the LayerProfiler ------------------ *)
\* The hooks of kind k installed on the module of slot s.
HooksOn(s, k) ==
    {h \in hooks : /\ h.layer_idx = s.layer_idx
                   /\ h.component_name = s.component_name
                   /\ h.kind = k}

\* Every module a component path finds has exactly one pre-hook and one
\* post-hook, and nothing else has a hook.
OneHookPairEach ==
    /\ \A i \in 1..NumSlots : \A k \in {"pre", "post"} :
          Cardinality(HooksOn(Slot(i), k)) =
              IF KindOf(Slot(i)) = "module" THEN 1 ELSE 0
    /\ \A h \in hooks : h.layer_idx < Len(model.layers)

\* C36: register_hooks on a profiler that is registered returns at once:
\* it adds no hook to the model and leaves hook_handles as it was; while the
\* profiler is registered every component has exactly one pre-hook and one
\* post-hook, however many calls were made.
C36_RegisterIsIdempotent ==
    /\ [][ (_hooks_registered /\ ret'.op \in {"register_hooks", "profiler_enter"}) =>
              /\ ret'.result = "skipped"
              /\ UNCHANGED << hooks, hook_handles, _hooks_registered >> ]_vars
    /\ [](_hooks_registered => OneHookPairEach)

C36_Witness ==
    /\ ret.op = "register_hooks"
    /\ ret.result = "skipped"
    /\ _hooks_registered
    /\ Len(hook_handles) = 2 * MaxLayers * Len(ComponentNames)
    /\ OneHookPairEach

\* C37: detach removes every hook on the model, calls remove() on each
\* handle exactly once, leaves hook_handles empty and the profiler
\* unregistered, and does not touch timings; a register_hooks that then
\* returns installs one hook pair per component, as the first one did.
C37_DetachRemovesEveryHook ==
    /\ [][ ret'.op \in {"detach", "profiler_exit"} =>
              /\ hooks' = {}
              /\ hook_handles' = << >>
              /\ ~_hooks_registered'
              /\ timings' = timings
              /\ \A h \in hooks : h \in DOMAIN removeCalls' ]_vars
    /\ [](\A h \in DOMAIN removeCalls : removeCalls[h] = 1 /\ h \notin hooks)
    /\ [][ (ret'.op \in {"register_hooks", "profiler_enter"} /\ ret'.result = "ok") =>
              /\ OneHookPairEach'
              /\ Len(hook_handles') = Cardinality(hooks')
              /\ SeqRange(hook_handles') = hooks' ]_vars

C37_Witness ==
    /\ ret.op = "register_hooks"
    /\ ret.result = "ok"
    /\ registrations = 2
    /\ _hooks_registered
    /\ Len(timings) > 0
    /\ Cardinality(DOMAIN removeCalls) = Len(hook_handles)
    /\ Len(hook_handles) > 0

\* C38: hooks are on the model, and handles in hook_handles, only while the
\* profiler is marked registered; a register_hooks that raised has left
\* none behind.
C38_HooksOnlyWhileRegistered ==
    (hooks # {} \/ Len(hook_handles) > 0) => _hooks_registered

(* ----------------- properties of extract_model_features ---------------- *)
\* C39: in a result of extract_model_features the label and the attention
\* count agree: "MHA" goes with 4 * hidden_size^2, "GQA" and "MQA" with
\* 2 * hidden_size^2 + 2 * hidden_size * (hidden_size // num_attention_heads)
\* * num_key_value_heads.
C39_LabelAgreesWithCount ==
    features.outcome = "ok" =>
        LET h == config.hidden_size
            a == config.num_attention_heads
            kv == config.num_key_value_heads
        IN  /\ features.attention_mechanism = "MHA" =>
                  features.attention_params_per_layer = 4 * h * h
            /\ features.attention_mechanism \in {"GQA", "MQA"} =>
                  features.attention_params_per_layer =
                      2 * h * h + 2 * h * (h \div a) * kv

=============================================================================
